---- MODULE Spec2Model ----
(***************************************************************************)
(* Model of the Optioneering analysis pipeline: price history source,      *)
(* fundamental field resolver, technical indicators, scoring and the       *)
(* recommendation mapper, as implemented in Optioneer.py (the Streamlit    *)
(* script with the run-analysis block), DataINgestor.py (ingest_data with  *)
(* try/finally) and DataIngestor.py (the yfinance-only ingest_data).       *)
(*                                                                         *)
(* Python values are records [t, n, d]:                                    *)
(*   t = "num"   a finite int/float, the exact rational n/d with d > 0     *)
(*   t = "nan"   float('nan')                                              *)
(*   t = "None"  None                                                      *)
(*   t = "str"   a non-numeric string; n identifies which one              *)
(*   t = "numstr" a string holding the decimal number n/d                  *)
(* Floating point rounding is not modelled: arithmetic is exact.           *)
(***************************************************************************)
EXTENDS Integers, Sequences, FiniteSets, TLC

VARIABLES
    variant,               \* which program runs
    pc,                    \* position in the run
    session,               \* the IBKR session: "none", "connected", "disconnected"
    exc,                   \* name of the exception that ended the run, or "none"
    calls,                 \* functions of the scoring stage invoked so far
    live,                  \* outcome of the live-feed attempt
    hist,                  \* closes of the price history in use
    hist_src,              \* provider the history came from
    used_yf,               \* TRUE once yf.Ticker(ticker).history was requested
    yahoo_info,            \* stock.info
    http,                  \* outcomes of the three provider HTTP calls
    sheet,                 \* balance sheet / cash flow / financials of yfinance
    fundamentals_fallback, \* result of get_fundamental_data
    adv_fund,              \* result of calculate_fundamentals
    combined_fundamentals, \* record handed to scoring and display
    technicals,            \* result of calculate_technical_indicators
    thresholds,            \* sidebar thresholds
    scores,                \* result of calculate_scores
    option_rec,            \* result of get_option_recommendation
    grok_insight,          \* result of get_grok_insight
    groq,                  \* outcome of the insight collaborator
    batch,                 \* process_file of OPtioneerWithStockAnalysis.py
    outcome                \* what the run handed back

vars == <<variant, pc, session, exc, calls, live, hist, hist_src, used_yf,
          yahoo_info, http, sheet, fundamentals_fallback, adv_fund,
          combined_fundamentals, technicals, thresholds, scores, option_rec,
          grok_insight, groq, batch, outcome>>

---------------------------------------------------------------------------
(* Python values *)

Frac(a, b) == [t |-> "num", n |-> a, d |-> b]
Num(a) == Frac(a, 1)
NaN == [t |-> "nan", n |-> 0, d |-> 1]
None == [t |-> "None", n |-> 0, d |-> 1]
\* the strings 'N/A', 'None' and '-'
NA == [t |-> "str", n |-> 0, d |-> 1]
StrNone == [t |-> "str", n |-> 1, d |-> 1]
StrDash == [t |-> "str", n |-> 2, d |-> 1]
NumStr(a, b) == [t |-> "numstr", n |-> a, d |-> b]
\* marks a key left out of a dict under construction; never a Python value
Absent == [t |-> "absent", n |-> 0, d |-> 1]

IsNum(v) == v.t = "num"
IsStr(v) == v.t \in {"str", "numstr"}

\* comparisons of floats; any comparison with NaN is False
NumEq(a, b) == IsNum(a) /\ IsNum(b) /\ a.n * b.d = b.n * a.d
LE(a, b) == IsNum(a) /\ IsNum(b) /\ a.n * b.d <= b.n * a.d
GE(a, b) == LE(b, a)
GT(a, b) == IsNum(a) /\ IsNum(b) /\ a.n * b.d > b.n * a.d
LT(a, b) == GT(b, a)

Mul(a, b) == Frac(a.n * b.n, a.d * b.d)
Add(a, b) == Frac(a.n * b.d + b.n * a.d, a.d * b.d)
Sub(a, b) == Frac(a.n * b.d - b.n * a.d, a.d * b.d)
\* a / b for b # 0, keeping the denominator positive
Div(a, b) ==
    IF b.n > 0 THEN Frac(a.n * b.d, a.d * b.n)
    ELSE Frac(-(a.n * b.d), a.d * (-b.n))

\* bool(v): None and 0 are falsy
Truthy(v) == ~(v.t = "None" \/ (IsNum(v) /\ v.n = 0))
\* pd.notna(v)
NotNa(v) == v.t \notin {"None", "nan"}

---------------------------------------------------------------------------
(* dicts: functions from a set of keys to values *)

EmptyDict == [k \in {} |-> None]
\* d.get(k, default)
Get(dict, k, default) == IF k \in DOMAIN dict THEN dict[k] ELSE default
\* the dict holding the keys of f that are not Absent
DictOf(f) == [k \in {x \in DOMAIN f : f[x] # Absent} |-> f[k]]
\* every choice of one value per key, dom[k] being the values of key k
Choices(dom) ==
    {f \in [DOMAIN dom -> UNION {dom[k] : k \in DOMAIN dom}] :
        \A k \in DOMAIN dom : f[k] \in dom[k]}
Dicts(dom) == {DictOf(f) : f \in Choices(dom)}

DE == "Debt-to-Equity Ratio"
CR == "Current Ratio"
FCF == "Free Cash Flow"
ROE == "Return on Equity (%)"
REVG == "Revenue Growth (%)"
RatioKeys == {DE, CR, ROE}
TrackedKeys == {DE, CR, FCF, ROE}

---------------------------------------------------------------------------
(* Fundamental data *)

is_missing(value) == value.t = "None" \/ value.t = "nan"

\* what a provider function hands back: a dict, or None
Ret(dict) == [ret |-> "dict", d |-> dict]
RetNone == [ret |-> "None", d |-> EmptyDict]

\* a provider function that reaches its end without returning:
\* Optioneer.py has no statement there (None), DataINgestor.py has `return {}`
FallOff(v) == IF v = "Optioneer.py" THEN RetNone ELSE Ret(EmptyDict)

\* An HTTP outcome is [out, body]:
\*   "raise"     requests.get raised (connection error, timeout)
\*   "non200"    a response whose status_code is not 200
\*   "empty"     200 and an empty JSON list
\*   "malformed" 200 and a payload json() or data[0] cannot read
\*   "ok"        200 and body is the payload (data[0] for FMP, data for Alpha)
Http(out, body) == [out |-> out, body |-> body]

fetch_fmp_ratios(v, h) ==
    CASE h.out \in {"raise", "malformed"} -> Ret(EmptyDict)
      [] h.out \in {"non200", "empty"} -> FallOff(v)
      [] OTHER ->
            LET latest == h.body
                roe == Get(latest, "returnOnEquity", None)
            IN Ret([k \in RatioKeys |->
                     CASE k = DE -> Get(latest, "debtEquityRatio", None)
                       [] k = CR -> Get(latest, "currentRatio", None)
                       [] OTHER ->
                            IF Truthy(roe) THEN Mul(roe, Num(100)) ELSE None])

fetch_fmp_key_metrics(v, h) ==
    CASE h.out \in {"raise", "malformed"} -> Ret(EmptyDict)
      [] h.out \in {"non200", "empty"} -> FallOff(v)
      [] OTHER ->
            Ret([k \in {FCF} |-> Get(h.body, "freeCashFlowPerShare", None)])

\* float(x) raises for None and for a string that holds no number
FloatRaises(x) == x.t \in {"None", "str"}
Float(x) == Frac(x.n, x.d)

\* one field of the overview: float(data.get(f, 'N/A')) if data.get(f) != 'None' else None
AlphaRaises(data, f) ==
    Get(data, f, None) # StrNone /\ FloatRaises(Get(data, f, NA))
AlphaField(data, f) ==
    IF Get(data, f, None) # StrNone THEN Float(Get(data, f, NA)) ELSE None

AlphaFieldOf ==
    [k \in RatioKeys |->
        CASE k = DE -> "DebtToEquity"
          [] k = CR -> "CurrentRatio"
          [] OTHER -> "ReturnOnEquityTTM"]

fetch_alpha_vantage_overview(v, h) ==
    CASE h.out \in {"raise", "malformed"} -> Ret(EmptyDict)
      [] h.out = "non200" -> FallOff(v)
      [] OTHER ->
            \* "empty" is the JSON object {}: every field is absent
            LET data == IF h.out = "empty" THEN EmptyDict ELSE h.body
            IN IF \E k \in RatioKeys : AlphaRaises(data, AlphaFieldOf[k])
               THEN Ret(EmptyDict)
               ELSE Ret([k \in RatioKeys |-> AlphaField(data, AlphaFieldOf[k])])

\* the result of a function that may raise
Returned(value) == [raised |-> FALSE, exc |-> "none", value |-> value]
Raised(name) == [raised |-> TRUE, exc |-> name, value |-> EmptyDict]

\* the dict built from stock.info, np.nan standing in for an absent key
PrimaryRecord(info) ==
    [k \in TrackedKeys |->
        CASE k = DE -> Get(info, "debtToEquity", NaN)
          [] k = CR -> Get(info, "currentRatio", NaN)
          [] k = FCF -> Get(info, "freeCashFlow", NaN)
          [] OTHER -> Get(info, "returnOnEquity", NaN)]

\* for key in keys: if is_missing(f[key]) and not is_missing(src.get(key)): f[key] = src[key]
FillFrom(f, keys, src) ==
    [k \in DOMAIN f |->
        IF k \in keys /\ is_missing(f[k]) /\ ~is_missing(Get(src, k, None))
        THEN src[k] ELSE f[k]]
\* src.get(key) is evaluated, for a key that is still missing, on src
NeedsGet(f, keys) == \E k \in keys : is_missing(f[k])

Sentinel(f) == [k \in DOMAIN f |-> IF is_missing(f[k]) THEN NA ELSE f[k]]

get_fundamental_data(v, info, h) ==
    LET f0 == PrimaryRecord(info)
        fmp_ratios == fetch_fmp_ratios(v, h.fmp_ratios)
        f1 == FillFrom(f0, RatioKeys, fmp_ratios.d)
        fmp_key_metrics == fetch_fmp_key_metrics(v, h.fmp_key_metrics)
        f2 == FillFrom(f1, {FCF}, fmp_key_metrics.d)
        alpha_ratios == fetch_alpha_vantage_overview(v, h.alpha)
        f3 == FillFrom(f2, RatioKeys, alpha_ratios.d)
    IN  \* None.get(key) raises AttributeError
        IF \/ (fmp_ratios.ret = "None" /\ NeedsGet(f0, RatioKeys))
           \/ (fmp_key_metrics.ret = "None" /\ NeedsGet(f1, {FCF}))
           \/ (alpha_ratios.ret = "None" /\ NeedsGet(f2, RatioKeys))
        THEN Raised("AttributeError")
        ELSE Returned(Sentinel(f3))

\* one row of a statement: latest.get(row, np.nan)
Row(frame, row) == Get(frame, row, NaN)

\* a / b if pd.notna(a) and pd.notna(b) and b != 0 else np.nan
Ratio(a, b) ==
    IF NotNa(a) /\ NotNa(b) /\ b.n # 0 THEN Div(a, b) ELSE NaN

\* revenue_growth of Optioneer.py: np.nan unless financials holds two columns
\* of a 'Total Revenue' row, both present and the previous one non-zero
RevenueGrowth(fs) ==
    IF /\ {"latest", "previous"} \subseteq DOMAIN fs
       /\ NotNa(fs["latest"]) /\ NotNa(fs["previous"])
       /\ fs["previous"].n # 0
    THEN Mul(Div(Sub(fs["latest"], fs["previous"]), fs["previous"]), Num(100))
    ELSE NaN

\* s is [out, bs, cf, fs]: out = "raise" when reading the statements raises
\* (an empty balance sheet: bs.iloc[:, 0] is an IndexError); the except
\* clause then returns {}
calculate_fundamentals(v, s, info) ==
    IF s.out = "raise" THEN EmptyDict
    ELSE
      LET debt_to_equity ==
              Ratio(Row(s.bs, "Total Liab"), Row(s.bs, "Total Stockholder Equity"))
          current_ratio ==
              Ratio(Row(s.bs, "Total Current Assets"),
                    Row(s.bs, "Total Current Liabilities"))
          operating_cf == Row(s.cf, "Total Cash From Operating Activities")
          capex == Row(s.cf, "Capital Expenditures")
          free_cash_flow ==
              IF NotNa(operating_cf) /\ NotNa(capex)
              THEN Sub(operating_cf, capex) ELSE NaN
          keys == IF v = "Optioneer.py" THEN TrackedKeys \cup {REVG}
                  ELSE TrackedKeys
      IN [k \in keys |->
            CASE k = DE -> debt_to_equity
              [] k = CR -> current_ratio
              [] k = FCF -> free_cash_flow
              [] k = REVG -> RevenueGrowth(s.fs)
              [] OTHER -> Get(info, "returnOnEquity", NaN)]

\* {k: adv_fund.get(k, fundamentals_fallback.get(k, "N/A")) for k in set(fallback) | set(adv)}
Combine(fallback, adv) ==
    [k \in DOMAIN fallback \cup DOMAIN adv |-> Get(adv, k, Get(fallback, k, NA))]

---------------------------------------------------------------------------
(* Technical indicators; a price history is the sequence of its closes *)

RSI_PERIOD == 14

Min(a, b) == IF a <= b THEN a ELSE b
Max(a, b) == IF a >= b THEN a ELSE b

\* sums of delta.clip(lower=0) and of -delta.clip(upper=0) over series[lo..hi],
\* delta[i] being series[i] - series[i-1]
RECURSIVE SumGain(_, _, _)
SumGain(series, lo, hi) ==
    IF lo > hi THEN 0
    ELSE Max(series[hi] - series[hi - 1], 0) + SumGain(series, lo, hi - 1)
RECURSIVE SumLoss(_, _, _)
SumLoss(series, lo, hi) ==
    IF lo > hi THEN 0
    ELSE Max(series[hi - 1] - series[hi], 0) + SumLoss(series, lo, hi - 1)

\* numpy float division: x/0 is inf (for x > 0) and 0/0 is nan, without raising;
\* 100 - 100/(1 + inf) is 100
calculate_rsi(series, period) ==
    LET n == Len(series)
        \* rolling(window=period, min_periods=period): delta[1] is NaN, so the
        \* last window holds period observations only from period + 1 bars on
        gain == SumGain(series, n - period + 1, n)
        loss == SumLoss(series, n - period + 1, n)
        avg_gain == Frac(gain, period)
        avg_loss == Frac(loss, period)
    IN IF n < period + 1 THEN NaN
       ELSE IF loss = 0 THEN (IF gain = 0 THEN NaN ELSE Num(100))
       ELSE Sub(Num(100), Div(Num(100), Add(Num(1), Div(avg_gain, avg_loss))))

\* hist['Close'].iloc[-min(N, len(hist))]
BaseClose(h, N) == h[Len(h) - Min(N, Len(h)) + 1]
\* ((latest_close / base) - 1) * 100
Perf(h, N) ==
    Mul(Sub(Div(Num(h[Len(h)]), Num(BaseClose(h, N))), Num(1)), Num(100))

calculate_performance(h) ==
    [k \in {"7-day Perf (%)", "30-day Perf (%)", "60-day Perf (%)"} |->
        CASE k = "7-day Perf (%)" -> Perf(h, 7)
          [] k = "30-day Perf (%)" -> Perf(h, 30)
          [] OTHER -> Perf(h, 60)]

PerfKeys == {"7-day Perf (%)", "30-day Perf (%)", "60-day Perf (%)"}
TechKeys == {"Current Price", "RSI", "MACD Histogram"} \cup PerfKeys

\* macd_hist is the latest value of the MACD histogram. The exponential moving
\* averages are not computed here: the value is an input of the model, any
\* finite float for a history that moves and 0 for one that does not.
calculate_technical_indicators(h, macd_hist) ==
    IF Len(h) = 0 THEN EmptyDict
    ELSE [k \in TechKeys |->
            CASE k = "Current Price" -> Num(h[Len(h)])
              [] k = "RSI" -> calculate_rsi(h, RSI_PERIOD)
              [] k = "MACD Histogram" -> macd_hist
              [] OTHER -> calculate_performance(h)[k]]

\* calculate_technical_indicators of DataIngestor.py: an empty history returns
\* {}; otherwise `macd_histogram = macd_line - signal_line` reads two names
\* the function never binds and raises NameError, before the performance
\* lines (which index iloc[-7], iloc[-30], iloc[-60] without min) are reached
calculate_technical_indicators_yf(h) ==
    IF Len(h) = 0 THEN Returned(EmptyDict) ELSE Raised("NameError")

\* the calculate_technical_indicators of program v
TechnicalIndicatorsOf(v, h, macd_hist) ==
    IF v = "DataIngestor.py" THEN calculate_technical_indicators_yf(h)
    ELSE Returned(calculate_technical_indicators(h, macd_hist))

---------------------------------------------------------------------------
(* Scoring and verdict *)

\* not is_missing(fund.get(k))
Present(fund, k) == ~is_missing(Get(fund, k, None))

\* The exception one criterion raises, "none" when it raises none. The
\* comparison is evaluated only for a value that is not missing; it reads
\* thresholds[tkey] (KeyError) and compares (TypeError between str and float).
\* tkey = "" for the criterion that reads no threshold.
CriterionExc(fund, th, k, tkey) ==
    IF ~Present(fund, k) THEN "none"
    ELSE IF tkey # "" /\ tkey \notin DOMAIN th THEN "KeyError"
    ELSE IF IsStr(fund[k]) THEN "TypeError"
    ELSE "none"

FundCriteria ==
    << <<DE, "Debt-to-Equity">>, <<CR, "Current Ratio">>, <<FCF, "">>,
       <<REVG, "Revenue Growth">>, <<ROE, "ROE">> >>

\* the first exception in the order the criteria are evaluated
RECURSIVE FirstExc(_, _, _)
FirstExc(fund, th, i) ==
    IF i > Len(FundCriteria) THEN "none"
    ELSE LET e == CriterionExc(fund, th, FundCriteria[i][1], FundCriteria[i][2])
         IN IF e # "none" THEN e ELSE FirstExc(fund, th, i + 1)

\* if v <= t: 10 elif v <= 1.0: 5
PointsAtMost(fund, k, t) ==
    IF Present(fund, k) /\ LE(fund[k], t) THEN 10
    ELSE IF Present(fund, k) /\ LE(fund[k], Num(1)) THEN 5
    ELSE 0
\* if v >= t: 10 elif v >= floor: 5
PointsAtLeast(fund, k, t, floor) ==
    IF Present(fund, k) /\ GE(fund[k], t) THEN 10
    ELSE IF Present(fund, k) /\ GE(fund[k], floor) THEN 5
    ELSE 0

FundPoints(fund, th) ==
    PointsAtMost(fund, DE, th["Debt-to-Equity"])
    + PointsAtLeast(fund, CR, th["Current Ratio"], Num(1))
    + (IF Present(fund, FCF) /\ GT(fund[FCF], Num(0)) THEN 10 ELSE 0)
    + (IF Present(fund, REVG)
       THEN PointsAtLeast(fund, REVG, th["Revenue Growth"], Num(5)) ELSE 0)
    + PointsAtLeast(fund, ROE, th["ROE"], Num(10))

RsiPoints(rsi, th) ==
    IF LE(th["RSI_low"], rsi) /\ LE(rsi, th["RSI_high"]) THEN 10
    ELSE IF \/ (LE(Num(30), rsi) /\ LT(rsi, Num(40)))
            \/ (LT(Num(60), rsi) /\ LE(rsi, Num(70))) THEN 5
    ELSE 0

PerfPoints(value) ==
    IF GT(value, Num(2)) THEN 10
    ELSE IF LE(Num(-2), value) /\ LE(value, Num(2)) THEN 5
    ELSE 0

TechPoints(tech, th) ==
    RsiPoints(Get(tech, "RSI", Num(0)), th)
    + (IF GT(Get(tech, "MACD Histogram", Num(0)), Num(0)) THEN 10 ELSE 0)
    + PerfPoints(Get(tech, "7-day Perf (%)", Num(0)))
    + PerfPoints(Get(tech, "30-day Perf (%)", Num(0)))
    + PerfPoints(Get(tech, "60-day Perf (%)", Num(0)))

\* a faulty normalisation: (points / 40) * 10 * weight
WeightedOver40(points, weight) ==
    Mul(Mul(Div(Num(points), Num(40)), Num(10)), weight)

\* (points / 50) * 10 * weight
Weighted(points, weight) == Mul(Mul(Div(Num(points), Num(50)), Num(10)), weight)

NoScores ==
    [raised |-> FALSE, exc |-> "none", fund_score |-> None,
     tech_score |-> None, overall_score |-> None]

calculate_scores(fund, tech, th) ==
    IF FirstExc(fund, th, 1) # "none"
    THEN [NoScores EXCEPT !.raised = TRUE, !.exc = FirstExc(fund, th, 1)]
    ELSE LET fund_score == Weighted(FundPoints(fund, th), Frac(6, 10))
             tech_score == Weighted(TechPoints(tech, th), Frac(4, 10))
         IN [raised |-> FALSE, exc |-> "none", fund_score |-> fund_score,
             tech_score |-> tech_score,
             overall_score |-> Add(fund_score, tech_score)]

NoRec == [Expiration |-> "none", Delta |-> 0, Strike |-> None]

\* a faulty mapper whose tier bounds are exclusive
StrictTiers(score, current_price) ==
    IF GT(score, Num(8))
    THEN [Expiration |-> "60 days", Delta |-> 50, Strike |-> current_price]
    ELSE IF GT(score, Num(6))
    THEN [Expiration |-> "45 days", Delta |-> 35,
          Strike |-> Mul(current_price, Frac(97, 100))]
    ELSE [Expiration |-> "30 days", Delta |-> 20,
          Strike |-> Mul(current_price, Frac(90, 100))]

get_option_recommendation(score, current_price) ==
    IF GE(score, Num(8))
    THEN [Expiration |-> "60 days", Delta |-> 50, Strike |-> current_price]
    ELSE IF GE(score, Num(6))
    THEN [Expiration |-> "45 days", Delta |-> 35,
          Strike |-> Mul(current_price, Frac(97, 100))]
    ELSE [Expiration |-> "30 days", Delta |-> 20,
          Strike |-> Mul(current_price, Frac(90, 100))]

---------------------------------------------------------------------------
(* The insight collaborator. Its outcome is                                  *)
(*   "ok"              the completion request returned a text                *)
(*   "request_error"   chat.completions.create raised                        *)
(*   "construct_error" Groq(api_key=...) raised                              *)

Placeholder == "Grok analysis unavailable."

\* get_grok_insight of Optioneer.py: the client exists before the run (it is
\* built when the script starts), the request is inside the try
get_grok_insight(out) ==
    IF out = "ok" THEN Returned("insight") ELSE Returned(Placeholder)

\* get_grok_insight of LLMAdviser.py: the client is built by the first
\* statement, outside the try
get_grok_insight_adviser(out) ==
    IF out = "construct_error" THEN Raised("GroqError")
    ELSE get_grok_insight(out)

\* the outcomes the collaborator can have inside get_grok_insight of program v
GroqOutcomes(v) ==
    IF v = "LLMAdviser.py" THEN {"ok", "request_error", "construct_error"}
    ELSE {"ok", "request_error"}

---------------------------------------------------------------------------
(* The page fetch of OPtioneerWithStockAnalysis.py under tenacity's @retry   *)

\* stop=stop_after_attempt(3)
MAX_ATTEMPTS == 3

\* what one attempt of fetch_stockanalysis_html does: it returns the page
\* ("ok"), raises a requests.RequestException (connection error, timeout, or
\* the HTTPError of raise_for_status), or raises another exception
AttemptOutcomes == {"ok", "RequestException", "other"}

\* a faulty predicate that retries after any exception
RetryAny(out) == out # "ok"

\* retry=retry_if_exception_type(requests.RequestException)
ShouldRetry(out) == out = "RequestException"
\* stop=stop_after_attempt(3), attempt being the number of attempts made
ShouldStop(attempt) == attempt >= MAX_ATTEMPTS

\* what @retry does after the attempt numbered attempt ended with out:
\* hand back the page, let an exception it does not retry through, raise
\* RetryError once the attempts are used up, or wait and call again
AfterAttempt(attempt, out) ==
    IF out = "ok" THEN "return"
    ELSE IF ~ShouldRetry(out) THEN "raise"
    ELSE IF ShouldStop(attempt) THEN "RetryError"
    ELSE "retry"

\* the row extract_stockanalysis_data returns when the fetch did not hand
\* back a page: `except Exception` turns the exception into an error record
ErrorRow(fetch) == [fetch |-> fetch, row |-> "error"]
\* the row it returns for a fetched page: the data, the record "Stats
\* section not found", or the error record when parsing raised
ParsedRow(parse) ==
    [fetch |-> "ok",
     row |-> CASE parse = "data" -> "data"
               [] parse = "nostats" -> "nostats"
               [] OTHER -> "error"]

\* process_file before it is called
BatchIdle ==
    [pc |-> "idle", n |-> 0, i |-> 0, attempt |-> 0, last |-> "none",
     results |-> << >>]

---------------------------------------------------------------------------
(* Inputs *)

HistShort == 5
HistLong == 16
HistMid == 31
HistFull == 61
MaxTickers == 3

Closes(shape, n) ==
    [i \in 1..n |->
        CASE shape = "rising" -> 100 + i
          [] shape = "flat" -> 100
          [] OTHER -> 100 + 3 * (i % 2)]
Shapes == {"rising", "flat", "zigzag"}

\* what reqHistoricalData hands back when it hands back bars
IbkrBars == {Closes("zigzag", HistLong), Closes("rising", HistShort)}
\* what yf.Ticker(ticker).history(period="1y") hands back; <<>> is the empty frame
YfHists == {<< >>} \cup {Closes(sh, n) : sh \in Shapes, n \in {HistShort, HistLong}}

IsFlat(h) == \A i \in 1..Len(h) : h[i] = h[1]
MacdValues(h) == IF IsFlat(h) THEN {Num(0)} ELSE {Frac(-12, 10), Frac(12, 10)}

InfoKeys == {"debtToEquity", "currentRatio", "freeCashFlow", "returnOnEquity"}
FullInfo ==
    [k \in InfoKeys |->
        CASE k = "debtToEquity" -> Frac(4, 10)
          [] k = "currentRatio" -> Num(2)
          [] k = "freeCashFlow" -> Num(500)
          [] OTHER -> Frac(15, 100)]
InfosAll ==
    Dicts([k \in InfoKeys |->
             IF k = "debtToEquity" THEN {Absent, None, FullInfo[k]}
             ELSE {Absent, FullInfo[k]}])
InfosRun == {EmptyDict, FullInfo}

FmpKeys == {"debtEquityRatio", "currentRatio", "returnOnEquity"}
FullFmp ==
    [k \in FmpKeys |->
        CASE k = "debtEquityRatio" -> Frac(45, 100)
          [] k = "currentRatio" -> Frac(21, 10)
          [] OTHER -> Frac(18, 100)]
Failures(outs) == {Http(o, EmptyDict) : o \in outs}
FmpRatiosAll ==
    Failures({"raise", "non200", "empty", "malformed"})
    \cup {Http("ok", b) :
            b \in Dicts([k \in FmpKeys |->
                           IF k = "returnOnEquity"
                           THEN {Absent, Num(0), FullFmp[k]}
                           ELSE {Absent, FullFmp[k]}])}
FullKeyMetrics == [k \in {"freeCashFlowPerShare"} |-> Num(3)]
FmpKeyMetricsAll ==
    Failures({"raise", "non200", "empty"})
    \cup {Http("ok", EmptyDict), Http("ok", FullKeyMetrics)}

AlphaKeys == {"DebtToEquity", "CurrentRatio", "ReturnOnEquityTTM"}
FullAlpha ==
    [k \in AlphaKeys |->
        CASE k = "DebtToEquity" -> NumStr(48, 100)
          [] k = "CurrentRatio" -> NumStr(22, 10)
          [] OTHER -> NumStr(20, 100)]
AlphaAll ==
    Failures({"raise", "non200", "empty"})
    \cup {Http("ok", b) :
            b \in Dicts([k \in AlphaKeys |->
                           IF k = "DebtToEquity"
                           THEN {Absent, StrNone, FullAlpha[k]}
                           ELSE {StrNone, FullAlpha[k]}])}

HttpsAll ==
    [fmp_ratios : FmpRatiosAll, fmp_key_metrics : FmpKeyMetricsAll, alpha : AlphaAll]
HttpsRun ==
    [fmp_ratios : {Http("non200", EmptyDict), Http("ok", FullFmp)},
     fmp_key_metrics : {Http("raise", EmptyDict), Http("ok", FullKeyMetrics)},
     alpha : {Http("raise", EmptyDict)}]
NoHttp ==
    [fmp_ratios |-> Http("none", EmptyDict),
     fmp_key_metrics |-> Http("none", EmptyDict),
     alpha |-> Http("none", EmptyDict)]

BsKeys ==
    {"Total Liab", "Total Stockholder Equity", "Total Current Assets",
     "Total Current Liabilities"}
FullBs ==
    [k \in BsKeys |->
        CASE k = "Total Liab" -> Num(30)
          [] k = "Total Stockholder Equity" -> Num(100)
          [] k = "Total Current Assets" -> Num(180)
          [] OTHER -> Num(100)]
FullCf ==
    [k \in {"Total Cash From Operating Activities", "Capital Expenditures"} |->
        IF k = "Capital Expenditures" THEN Num(300) ELSE Num(900)]
FullFs == [k \in {"latest", "previous"} |-> IF k = "latest" THEN Num(110) ELSE Num(100)]
Sheet(out, bs, cf, fs) == [out |-> out, bs |-> bs, cf |-> cf, fs |-> fs]
NoSheet == Sheet("none", EmptyDict, EmptyDict, EmptyDict)
RaisingSheet == Sheet("raise", EmptyDict, EmptyDict, EmptyDict)
SheetsAll ==
    {RaisingSheet}
    \cup {Sheet("ok", bs, FullCf, FullFs) :
            bs \in Dicts([k \in BsKeys |->
                            IF k \in {"Total Liab", "Total Current Assets"}
                            THEN {Absent, FullBs[k]} ELSE {FullBs[k]}])}
SheetsRun ==
    {RaisingSheet, Sheet("ok", FullBs, FullCf, FullFs),
     Sheet("ok", [k \in BsKeys \ {"Total Liab"} |-> FullBs[k]], FullCf, FullFs)}

ThresholdKeys ==
    {"Debt-to-Equity", "Current Ratio", "Revenue Growth", "ROE", "RSI_low", "RSI_high"}
\* the values the sidebar starts with
DefaultThresholds ==
    [k \in ThresholdKeys |->
        CASE k = "Debt-to-Equity" -> Frac(5, 10)
          [] k = "Current Ratio" -> Frac(15, 10)
          [] k = "Revenue Growth" -> Num(10)
          [] k = "ROE" -> Num(15)
          [] k = "RSI_low" -> Num(40)
          [] OTHER -> Num(60)]
\* the sidebar lets the lower bound exceed the upper one
InvertedRsi == [DefaultThresholds EXCEPT !["RSI_low"] = Num(70), !["RSI_high"] = Num(30)]
\* thresholds without Revenue Growth, as render_ui of StreamlitUI.py builds them
FourMetricThresholds ==
    [k \in ThresholdKeys \ {"Revenue Growth"} |-> DefaultThresholds[k]]
ThresholdsRun == {DefaultThresholds, InvertedRsi}

---------------------------------------------------------------------------
(* The run: the run-analysis block of Optioneer.py, ingest_data of           *)
(* DataINgestor.py, ingest_data of DataIngestor.py                           *)

Variants == {"Optioneer.py", "DataINgestor.py", "DataIngestor.py"}
LiveVariants == {"Optioneer.py", "DataINgestor.py"}

Idle ==
    /\ session = "none" /\ exc = "none" /\ calls = {} /\ live = "none"
    /\ hist = << >> /\ hist_src = "none" /\ used_yf = FALSE
    /\ yahoo_info = EmptyDict /\ http = NoHttp /\ sheet = NoSheet
    /\ fundamentals_fallback = EmptyDict /\ adv_fund = EmptyDict
    /\ combined_fundamentals = EmptyDict /\ technicals = EmptyDict
    /\ scores = NoScores /\ option_rec = NoRec /\ grok_insight = "none" /\ groq = "none" /\ batch = BatchIdle
    /\ outcome = "none"

Init ==
    /\ variant \in Variants
    /\ pc = "start"
    /\ thresholds \in ThresholdsRun
    /\ Idle

\* The session once an exception leaves the run: ingest_data of
\* DataINgestor.py disconnects in its finally clause, if it got as far as the
\* try; the run-analysis block of Optioneer.py has no handler.
SessionAfterRaise ==
    IF variant = "DataINgestor.py" /\ session = "connected"
    THEN "disconnected" ELSE session

\* an exception that nothing catches ends the run
Raise(name) ==
    /\ pc' = "raised"
    /\ exc' = name
    /\ session' = SessionAfterRaise
    /\ outcome' = "exception"

connect_ibkr ==
    /\ pc = "start" /\ variant \in LiveVariants
    /\ \E ok \in BOOLEAN :
         IF ok
         THEN /\ session' = "connected"
              /\ pc' = "fetch_ibkr_stock_data"
              /\ UNCHANGED <<exc, live, outcome>>
         ELSE \* ib.connect raises; no session exists
              /\ live' = "connect_error"
              /\ Raise("ConnectionRefusedError")
    /\ UNCHANGED <<batch, groq, variant, calls, hist, hist_src, used_yf, yahoo_info, http,
                   sheet, fundamentals_fallback, adv_fund, combined_fundamentals,
                   technicals, thresholds, scores, option_rec, grok_insight>>

\* ibkr_hist = fetch_ibkr_stock_data(ib, ticker): raises, returns None for no
\* bars (a timed out request hands back no bars), or returns the frame
fetch_ibkr_stock_data ==
    /\ pc = "fetch_ibkr_stock_data"
    /\ \/ /\ live' = "query_error"
          /\ Raise("ConnectionError")
          /\ UNCHANGED <<hist, hist_src>>
       \/ /\ live' = "empty"
          /\ pc' = "yf_history"
          /\ UNCHANGED <<hist, hist_src, exc, session, outcome>>
       \/ \E bars \in IbkrBars :
            /\ live' = "bars"
            /\ hist' = bars
            /\ hist_src' = "ibkr"
            /\ pc' = "get_fundamental_data"
            /\ UNCHANGED <<exc, session, outcome>>
    /\ UNCHANGED <<batch, groq, variant, calls, used_yf, yahoo_info, http, sheet,
                   fundamentals_fallback, adv_fund, combined_fundamentals,
                   technicals, thresholds, scores, option_rec, grok_insight>>

\* hist = ... else yf.Ticker(ticker).history(period="1y")
yf_history ==
    /\ pc = "yf_history"
    /\ \E h \in YfHists : hist' = h
    /\ hist_src' = "yfinance"
    /\ used_yf' = TRUE
    /\ pc' = "get_fundamental_data"
    /\ UNCHANGED <<batch, groq, variant, session, exc, calls, live, yahoo_info, http, sheet,
                   fundamentals_fallback, adv_fund, combined_fundamentals,
                   technicals, thresholds, scores, option_rec, grok_insight,
                   outcome>>

\* fundamentals_fallback = get_fundamental_data(ticker)
GetFundamentalData(infos, https) ==
    /\ pc = "get_fundamental_data"
    /\ \E info \in infos, h \in https :
         LET r == get_fundamental_data(variant, info, h)
         IN /\ yahoo_info' = info
            /\ http' = h
            /\ IF r.raised
               THEN /\ Raise(r.exc)
                    /\ UNCHANGED fundamentals_fallback
               ELSE /\ fundamentals_fallback' = r.value
                    /\ pc' = "calculate_fundamentals"
                    /\ UNCHANGED <<exc, session, outcome>>
    /\ UNCHANGED <<batch, groq, variant, calls, live, hist, hist_src, used_yf, sheet, adv_fund,
                   combined_fundamentals, technicals, thresholds, scores,
                   option_rec, grok_insight>>

\* adv_fund = calculate_fundamentals(yfa); combined_fundamentals = {...}
CalculateFundamentals(sheets) ==
    /\ pc = "calculate_fundamentals"
    /\ \E s \in sheets :
         /\ sheet' = s
         /\ adv_fund' = calculate_fundamentals(variant, s, yahoo_info)
         /\ combined_fundamentals' =
                Combine(fundamentals_fallback,
                        calculate_fundamentals(variant, s, yahoo_info))
    /\ pc' = "calculate_technical_indicators"
    /\ UNCHANGED <<batch, groq, variant, session, exc, calls, live, hist, hist_src, used_yf,
                   yahoo_info, http, fundamentals_fallback, technicals,
                   thresholds, scores, option_rec, grok_insight, outcome>>

\* technicals = calculate_technical_indicators(hist)
CalculateTechnicalIndicators ==
    /\ pc = "calculate_technical_indicators"
    /\ \E m \in MacdValues(hist) :
         LET r == TechnicalIndicatorsOf(variant, hist, m)
         IN IF r.raised
            THEN /\ Raise(r.exc)
                 /\ UNCHANGED technicals
            ELSE /\ technicals' = r.value
                 /\ pc' = "calculate_options_indicators_ibkr"
                 /\ UNCHANGED <<exc, session, outcome>>
    /\ UNCHANGED <<batch, groq, variant, calls, live, hist, hist_src, used_yf, yahoo_info,
                   http, sheet, fundamentals_fallback, adv_fund,
                   combined_fundamentals, thresholds, scores, option_rec,
                   grok_insight>>

\* options_data = calculate_options_indicators_ibkr(ib, ticker), which may
\* raise; in DataINgestor.py the return and the finally clause follow
CalculateOptionsIndicators ==
    /\ pc = "calculate_options_indicators_ibkr"
    /\ \/ Raise("ConnectionError")
       \/ /\ variant = "Optioneer.py"
          /\ pc' = "disconnect"
          /\ UNCHANGED <<exc, session, outcome>>
       \/ /\ variant = "DataINgestor.py"
          /\ session' = "disconnected"
          /\ pc' = "returned"
          /\ outcome' = "data"
          /\ UNCHANGED exc
    /\ UNCHANGED <<batch, groq, variant, calls, live, hist, hist_src, used_yf, yahoo_info,
                   http, sheet, fundamentals_fallback, adv_fund,
                   combined_fundamentals, technicals, thresholds, scores,
                   option_rec, grok_insight>>

\* ib.disconnect() after the spinner block of Optioneer.py
Disconnect ==
    /\ pc = "disconnect"
    /\ session' = "disconnected"
    /\ pc' = "calculate_scores"
    /\ UNCHANGED <<batch, groq, variant, exc, calls, live, hist, hist_src, used_yf, yahoo_info,
                   http, sheet, fundamentals_fallback, adv_fund,
                   combined_fundamentals, technicals, thresholds, scores,
                   option_rec, grok_insight, outcome>>

\* a faulty scoring step that reads the resolver's record, a global, instead
\* of the record it is given
ScoresFromGlobal ==
    /\ pc = "calculate_scores"
    /\ calls' = calls \cup {"calculate_scores"}
    /\ LET r == calculate_scores(fundamentals_fallback, technicals, thresholds)
       IN /\ scores' = r
          /\ IF r.raised
             THEN Raise(r.exc)
             ELSE /\ pc' = "get_option_recommendation"
                  /\ UNCHANGED <<exc, session, outcome>>
    /\ UNCHANGED <<batch, groq, variant, live, hist, hist_src, used_yf, yahoo_info, http,
                   sheet, fundamentals_fallback, adv_fund, combined_fundamentals,
                   technicals, thresholds, option_rec, grok_insight>>

\* fund_score, tech_score, overall_score = calculate_scores(...)
CalculateScores ==
    /\ pc = "calculate_scores"
    /\ calls' = calls \cup {"calculate_scores"}
    /\ LET r == calculate_scores(combined_fundamentals, technicals, thresholds)
       IN /\ scores' = r
          /\ IF r.raised
             THEN Raise(r.exc)
             ELSE /\ pc' = "get_option_recommendation"
                  /\ UNCHANGED <<exc, session, outcome>>
    /\ UNCHANGED <<batch, groq, variant, live, hist, hist_src, used_yf, yahoo_info, http,
                   sheet, fundamentals_fallback, adv_fund, combined_fundamentals,
                   technicals, thresholds, option_rec, grok_insight>>

\* option_rec = get_option_recommendation(overall_score, technicals["Current Price"]);
\* the subscript is evaluated before the call
GetOptionRecommendation ==
    /\ pc = "get_option_recommendation"
    /\ IF "Current Price" \in DOMAIN technicals
       THEN /\ calls' = calls \cup {"get_option_recommendation"}
            /\ option_rec' =
                   get_option_recommendation(scores.overall_score,
                                             technicals["Current Price"])
            /\ pc' = "get_grok_insight"
            /\ UNCHANGED <<exc, session, outcome>>
       ELSE /\ Raise("KeyError")
            /\ UNCHANGED <<calls, option_rec>>
    /\ UNCHANGED <<batch, groq, variant, live, hist, hist_src, used_yf, yahoo_info, http,
                   sheet, fundamentals_fallback, adv_fund, combined_fundamentals,
                   technicals, thresholds, scores, grok_insight>>

\* grok_insight = get_grok_insight(...)
GetGrokInsight ==
    /\ pc = "get_grok_insight"
    /\ \E out \in GroqOutcomes(variant) :
         LET r == IF variant = "LLMAdviser.py" THEN get_grok_insight_adviser(out)
                  ELSE get_grok_insight(out)
         IN /\ groq' = out
            /\ IF r.raised
               THEN /\ Raise(r.exc)
                    /\ UNCHANGED grok_insight
               ELSE /\ grok_insight' = r.value
                    /\ pc' = "display"
                    /\ UNCHANGED <<exc, session, outcome>>
    /\ UNCHANGED <<batch, variant, calls, live, hist, hist_src, used_yf, yahoo_info,
                   http, sheet, fundamentals_fallback, adv_fund,
                   combined_fundamentals, technicals, thresholds, scores,
                   option_rec>>

\* the three columns and the chart
Display ==
    /\ pc = "display"
    /\ pc' = "done"
    /\ outcome' = "displayed"
    /\ UNCHANGED <<batch, groq, variant, session, exc, calls, live, hist, hist_src, used_yf,
                   yahoo_info, http, sheet, fundamentals_fallback, adv_fund,
                   combined_fundamentals, technicals, thresholds, scores,
                   option_rec, grok_insight>>

\* ingest_data of DataIngestor.py: the history comes from yfinance alone; an
\* empty one returns {}; otherwise the next statement calls
\* get_fundamental_data, a name the module does not define
IngestYfinanceOnly ==
    /\ pc = "start" /\ variant = "DataIngestor.py"
    /\ \E h \in YfHists :
         /\ hist' = h
         /\ IF Len(h) = 0
            THEN /\ pc' = "returned"
                 /\ outcome' = "empty"
                 /\ UNCHANGED <<exc, session>>
            ELSE Raise("NameError")
    /\ hist_src' = "yfinance"
    /\ used_yf' = TRUE
    /\ UNCHANGED <<batch, groq, variant, calls, live, yahoo_info, http, sheet,
                   fundamentals_fallback, adv_fund, combined_fundamentals,
                   technicals, thresholds, scores, option_rec, grok_insight>>

Next ==
    \/ connect_ibkr
    \/ fetch_ibkr_stock_data
    \/ yf_history
    \/ GetFundamentalData(InfosRun, HttpsRun)
    \/ CalculateFundamentals(SheetsRun)
    \/ CalculateTechnicalIndicators
    \/ CalculateOptionsIndicators
    \/ Disconnect
    \/ CalculateScores
    \/ GetOptionRecommendation
    \/ GetGrokInsight
    \/ Display
    \/ IngestYfinanceOnly

Spec == Init /\ [][Next]_vars

---------------------------------------------------------------------------
(* The resolver alone: get_fundamental_data, calculate_fundamentals and the  *)
(* combination, over every provider outcome                                  *)

InitResolver ==
    /\ variant \in LiveVariants
    /\ pc = "get_fundamental_data"
    /\ thresholds = DefaultThresholds
    /\ Idle

NextResolver ==
    \/ GetFundamentalData(InfosAll, HttpsAll)
    \/ CalculateFundamentals(SheetsAll)

SpecResolver == InitResolver /\ [][NextResolver]_vars

---------------------------------------------------------------------------
(* calculate_scores and get_option_recommendation alone, over bounded inputs *)

FundRecords ==
    Dicts([k \in TrackedKeys \cup {REVG} |->
             CASE k = DE -> {Frac(4, 10), Frac(8, 10), Num(2), NaN, NA}
               [] k = CR -> {Num(2), Frac(12, 10), Frac(8, 10), NA}
               [] k = FCF -> {Num(500), Num(-100), NA}
               [] k = ROE -> {Num(20), Num(12), Frac(15, 100), NA}
               [] OTHER -> {Absent, Num(12), NaN}])

TechRecords ==
    {EmptyDict}
    \cup Dicts([k \in TechKeys |->
                  CASE k = "Current Price" -> {Num(100)}
                    [] k = "RSI" -> {Num(45), Num(65), NaN}
                    [] k = "MACD Histogram" -> {Frac(12, 10), Frac(-12, 10)}
                    [] k = "7-day Perf (%)" -> {Num(3)}
                    [] k = "30-day Perf (%)" -> {Num(5), Num(-1), Num(-3)}
                    [] OTHER -> {Num(4)}])

ThresholdsScore == {DefaultThresholds, FourMetricThresholds, InvertedRsi}

InitScore ==
    /\ variant = "Optioneer.py"
    /\ pc = "calculate_scores"
    /\ combined_fundamentals \in FundRecords
    /\ technicals \in TechRecords
    /\ thresholds \in ThresholdsScore
    /\ session = "none" /\ exc = "none" /\ calls = {} /\ live = "none"
    /\ hist = << >> /\ hist_src = "none" /\ used_yf = FALSE
    /\ yahoo_info = EmptyDict /\ http = NoHttp /\ sheet = NoSheet
    /\ fundamentals_fallback = EmptyDict /\ adv_fund = EmptyDict
    /\ scores = NoScores /\ option_rec = NoRec /\ grok_insight = "none" /\ groq = "none" /\ batch = BatchIdle
    /\ outcome = "none"

NextScore ==
    \/ CalculateScores
    \/ GetOptionRecommendation

SpecScore == InitScore /\ [][NextScore]_vars

---------------------------------------------------------------------------
(* calculate_technical_indicators alone, in each of the three programs, over *)
(* price histories of every length up to HistLong and of HistMid and         *)
(* HistFull bars                                                              *)

HistLengths == (0..HistLong) \cup {HistMid, HistFull}
Histories == {Closes(sh, n) : sh \in Shapes, n \in HistLengths}

InitTech ==
    /\ variant \in Variants
    /\ pc = "calculate_technical_indicators"
    /\ hist \in Histories
    /\ hist_src = "yfinance" /\ used_yf = TRUE
    /\ thresholds = DefaultThresholds
    /\ session = "none" /\ exc = "none" /\ calls = {} /\ live = "none"
    /\ yahoo_info = EmptyDict /\ http = NoHttp /\ sheet = NoSheet
    /\ fundamentals_fallback = EmptyDict /\ adv_fund = EmptyDict
    /\ combined_fundamentals = EmptyDict /\ technicals = EmptyDict
    /\ scores = NoScores /\ option_rec = NoRec /\ grok_insight = "none" /\ groq = "none" /\ batch = BatchIdle
    /\ outcome = "none"

NextTech == CalculateTechnicalIndicators

SpecTech == InitTech /\ [][NextTech]_vars

---------------------------------------------------------------------------
(* get_option_recommendation alone, over composite scores and prices         *)

\* composite scores in thousandths: every half point of 0..10 and the
\* neighbours of the two tier bounds
ScoreGrid ==
    {Frac(500 * k, 1000) : k \in 0..20}
    \cup {Frac(5999, 1000), Frac(6001, 1000), Frac(7999, 1000), Frac(8001, 1000)}
Prices == {Num(1), Num(50), Frac(1235, 10), Num(2000)}

\* a technicals record whose latest close is price
TechAt(price) ==
    [k \in TechKeys |->
        CASE k = "Current Price" -> price
          [] k = "RSI" -> Num(45)
          [] k = "MACD Histogram" -> Frac(12, 10)
          [] OTHER -> Num(3)]

InitRec ==
    /\ variant = "Optioneer.py"
    /\ pc = "get_option_recommendation"
    /\ \E s \in ScoreGrid :
         scores = [raised |-> FALSE, exc |-> "none",
                   fund_score |-> Mul(s, Frac(6, 10)),
                   tech_score |-> Mul(s, Frac(4, 10)),
                   overall_score |-> s]
    /\ technicals \in {EmptyDict} \cup {TechAt(price) : price \in Prices}
    /\ thresholds = DefaultThresholds
    /\ calls = {"calculate_scores"}
    /\ session = "disconnected" /\ exc = "none" /\ live = "none"
    /\ hist = << >> /\ hist_src = "none" /\ used_yf = FALSE
    /\ yahoo_info = EmptyDict /\ http = NoHttp /\ sheet = NoSheet
    /\ fundamentals_fallback = EmptyDict /\ adv_fund = EmptyDict
    /\ combined_fundamentals = EmptyDict
    /\ option_rec = NoRec /\ grok_insight = "none" /\ groq = "none" /\ batch = BatchIdle /\ outcome = "none"

NextRec == GetOptionRecommendation

SpecRec == InitRec /\ [][NextRec]_vars

---------------------------------------------------------------------------
(* get_grok_insight of Optioneer.py and of LLMAdviser.py, called with a      *)
(* score and a recommendation already computed, then the display             *)

InitInsight ==
    /\ variant \in {"Optioneer.py", "LLMAdviser.py"}
    /\ pc = "get_grok_insight"
    /\ \E s \in ScoreGrid, price \in Prices :
         /\ scores = [raised |-> FALSE, exc |-> "none",
                      fund_score |-> Mul(s, Frac(6, 10)),
                      tech_score |-> Mul(s, Frac(4, 10)),
                      overall_score |-> s]
         /\ technicals = TechAt(price)
         /\ option_rec = get_option_recommendation(s, price)
    /\ thresholds = DefaultThresholds
    /\ calls = {"calculate_scores", "get_option_recommendation"}
    /\ session = "disconnected" /\ exc = "none" /\ live = "none"
    /\ hist = << >> /\ hist_src = "none" /\ used_yf = FALSE
    /\ yahoo_info = EmptyDict /\ http = NoHttp /\ sheet = NoSheet
    /\ fundamentals_fallback = EmptyDict /\ adv_fund = EmptyDict
    /\ combined_fundamentals = EmptyDict
    /\ grok_insight = "none" /\ groq = "none" /\ batch = BatchIdle /\ outcome = "none"

NextInsight ==
    \/ GetGrokInsight
    \/ Display

SpecInsight == InitInsight /\ [][NextInsight]_vars

---------------------------------------------------------------------------
(* process_file of OPtioneerWithStockAnalysis.py: one row per ticker         *)

runVars ==
    <<variant, pc, session, exc, calls, live, hist, hist_src, used_yf,
      yahoo_info, http, sheet, fundamentals_fallback, adv_fund,
      combined_fundamentals, technicals, thresholds, scores, option_rec,
      grok_insight, groq, outcome>>

\* results.append(row_data); time.sleep(rate_delay); the loops go on to the
\* next ticker, and after the last one process_file returns the frame
AppendRow(row) ==
    batch' = [batch EXCEPT !.results = Append(@, row),
                           !.i = @ + 1,
                           !.attempt = 0,
                           !.last = "none",
                           !.pc = IF batch.i + 1 > batch.n THEN "done"
                                  ELSE "fetch"]

\* tickers = df.iloc[:, 0]...tolist(); results = []
ProcessFile ==
    /\ batch.pc = "idle"
    /\ \E n \in 0..MaxTickers :
         batch' = [batch EXCEPT !.n = n, !.i = 1,
                                !.pc = IF n = 0 THEN "done" ELSE "fetch"]
    /\ UNCHANGED runVars

\* one attempt of fetch_stockanalysis_html inside extract_stockanalysis_data,
\* and what @retry and the except clause make of it
FetchAttempt ==
    /\ batch.pc = "fetch"
    /\ batch.attempt <= MAX_ATTEMPTS
    /\ \E out \in AttemptOutcomes :
         LET made == batch.attempt + 1
             then == AfterAttempt(made, out)
         IN CASE then = "return" ->
                   batch' = [batch EXCEPT !.attempt = made, !.last = out,
                                          !.pc = "parse"]
              [] then = "retry" ->
                   batch' = [batch EXCEPT !.attempt = made, !.last = out]
              [] then = "RetryError" -> AppendRow(ErrorRow("RetryError"))
              [] OTHER -> AppendRow(ErrorRow("other"))
    /\ UNCHANGED runVars

\* the rest of extract_stockanalysis_data once the page is there
ExtractData ==
    /\ batch.pc = "parse"
    /\ \E parse \in {"data", "nostats", "raise"} : AppendRow(ParsedRow(parse))
    /\ UNCHANGED runVars

InitBatch ==
    /\ variant = "OPtioneerWithStockAnalysis.py"
    /\ pc = "start"
    /\ thresholds = DefaultThresholds
    /\ Idle

NextBatch ==
    \/ ProcessFile
    \/ FetchAttempt
    \/ ExtractData

SpecBatch == InitBatch /\ [][NextBatch]_vars

\* process_file is a loop of calls that each come back: requests.get has
\* timeout=10 and the sleeps are finite, so a step that can be taken is taken
SpecBatchFair == SpecBatch /\ WF_vars(NextBatch)

---------------------------------------------------------------------------
(* Claims *)

Primary(k) == PrimaryRecord(yahoo_info)[k]

\* the value the ratios API (for Free Cash Flow, the key-metrics API) supplies
\* for metric k, Return on Equity as a percentage; None when it supplies none
SecondaryValue(k) ==
    LET h == IF k = FCF THEN http.fmp_key_metrics ELSE http.fmp_ratios
        f == CASE k = DE -> "debtEquityRatio"
               [] k = CR -> "currentRatio"
               [] k = FCF -> "freeCashFlowPerShare"
               [] OTHER -> "returnOnEquity"
        x == Get(h.body, f, None)
    IN IF h.out # "ok" THEN None
       ELSE IF k = ROE /\ IsNum(x) THEN Mul(x, Num(100)) ELSE x

\* the value the overview API supplies for metric k; None when it supplies none
TertiaryValue(k) ==
    LET x == IF k \in RatioKeys THEN Get(http.alpha.body, AlphaFieldOf[k], None)
             ELSE None
    IN IF http.alpha.out = "ok" /\ x.t = "numstr" THEN Float(x) ELSE None

SameValue(a, b) == a = b \/ NumEq(a, b)

\* get_fundamental_data has run
Resolved == pc = "calculate_fundamentals"
\* the combined record has been built
Combined == pc = "calculate_technical_indicators"

\* C1: whenever the primary provider supplies a non-missing value for a
\* tracked metric, the record handed to scoring holds exactly that value.
C1_PrimaryPrecedence ==
    Combined =>
        \A k \in TrackedKeys :
            ~is_missing(Primary(k)) =>
                SameValue(combined_fundamentals[k], Primary(k))

\* C2: for every combination of provider outcomes get_fundamental_data
\* returns, and for each tracked metric whose primary value is missing the
\* result is the secondary provider's value if it supplies one, else the
\* tertiary provider's value if it supplies one, else the sentinel 'N/A'.
C2_FallbackChain ==
    (pc # "get_fundamental_data") =>
        /\ exc = "none"
        /\ \A k \in TrackedKeys :
             is_missing(Primary(k)) =>
                 fundamentals_fallback[k] =
                     IF ~is_missing(SecondaryValue(k)) THEN SecondaryValue(k)
                     ELSE IF ~is_missing(TertiaryValue(k)) THEN TertiaryValue(k)
                     ELSE NA

\* the record without the metrics that hold the sentinel
WithoutNA(fund) == [k \in {x \in DOMAIN fund : fund[x] # NA} |-> fund[k]]
HasNA(fund) == \E k \in DOMAIN fund : fund[k] = NA
ScoresReturned == pc \in {"get_option_recommendation", "raised"}

\* C3: for a record in which some metric holds 'N/A', calculate_scores
\* completes and its fundamental subscore is the one of the available
\* metrics alone: each 'N/A' metric contributes 0 points.
C3_UnavailableScoresZero ==
    LET expected ==
            calculate_scores(WithoutNA(combined_fundamentals), technicals,
                             thresholds)
    IN (ScoresReturned /\ HasNA(combined_fundamentals) /\ ~expected.raised) =>
           /\ ~scores.raised
           /\ NumEq(scores.fund_score, expected.fund_score)

\* a finite number or the sentinel
FiniteOrSentinel(v) == IsNum(v) \/ v = NA

\* C4: every metric of the combined fundamentals and of the technicals that
\* is passed to calculate_scores or to the display is a finite number or the
\* sentinel, never NaN.
C4_NoNaNLeaks ==
    (pc \in {"calculate_scores", "display"}) =>
        /\ \A k \in DOMAIN combined_fundamentals :
              FiniteOrSentinel(combined_fundamentals[k])
        /\ \A k \in DOMAIN technicals : FiniteOrSentinel(technicals[k])

\* the fractions the providers gave for Return on Equity
RoeFractions ==
    {Get(yahoo_info, "returnOnEquity", None),
     IF http.fmp_ratios.out = "ok"
     THEN Get(http.fmp_ratios.body, "returnOnEquity", None) ELSE None,
     TertiaryValue(ROE)} \ {None}

\* C5: a Return on Equity that a provider gave as the fraction f is in the
\* resolved record as the percentage 100 * f, whichever provider supplied it.
C5_RoeNormalized ==
    (Combined /\ IsNum(combined_fundamentals[ROE])) =>
        \E f \in RoeFractions :
            NumEq(combined_fundamentals[ROE], Mul(f, Num(100)))

\* C6: a provider call that fails (exception, timeout, non-200 status, empty
\* or malformed payload) returns an empty mapping, and get_fundamental_data
\* completes without raising.
C6_FailClosed ==
    (pc # "get_fundamental_data") =>
        /\ http.fmp_ratios.out # "ok" =>
              fetch_fmp_ratios(variant, http.fmp_ratios) = Ret(EmptyDict)
        /\ http.fmp_key_metrics.out # "ok" =>
              fetch_fmp_key_metrics(variant, http.fmp_key_metrics) = Ret(EmptyDict)
        /\ http.alpha.out # "ok" =>
              fetch_alpha_vantage_overview(variant, http.alpha) = Ret(EmptyDict)
        /\ exc = "none"

\* neither the live feed nor the delayed-quote provider yielded a bar
BothEmpty ==
    /\ used_yf /\ hist = << >>
    /\ variant \in LiveVariants => live = "empty"
RunEnded == pc \in {"done", "raised", "returned"}

\* C7: when both sources yield no price bars the run stops there: neither
\* calculate_scores nor get_option_recommendation is invoked in that run.
C7_InsufficientDataStops == BothEmpty => calls = {}

\* C8: no run ends with the live-feed session still connected.
C8_SessionReleased == RunEnded => session # "connected"

\* C9: whenever the live feed fails (connect error, query error or timeout,
\* empty bars) the failure is not raised: the run goes on to the
\* delayed-quote provider and takes the history from it.
C9_SilentFallback ==
    (live \in {"connect_error", "query_error", "empty"}) =>
        (pc = "yf_history" \/ hist_src = "yfinance")

\* all four criteria pass and Revenue Growth is not tracked
FourPass(fund, th) ==
    /\ REVG \notin DOMAIN fund /\ "Revenue Growth" \notin DOMAIN th
    /\ LE(fund[DE], th["Debt-to-Equity"])
    /\ GE(fund[CR], th["Current Ratio"])
    /\ GT(fund[FCF], Num(0))
    /\ GE(fund[ROE], th["ROE"])

\* C10: when Revenue Growth is not tracked and all four criteria pass,
\* calculate_scores returns a fundamental subscore of exactly 6.0.
C10_FourMetricFullScore ==
    (ScoresReturned /\ FourPass(combined_fundamentals, thresholds)) =>
        /\ ~scores.raised
        /\ NumEq(scores.fund_score, Num(6))

\* the number of technical criteria that pass
TechPasses(tech, th) ==
    (IF LE(th["RSI_low"], tech["RSI"]) /\ LE(tech["RSI"], th["RSI_high"])
     THEN 1 ELSE 0)
    + (IF GT(tech["MACD Histogram"], Num(0)) THEN 1 ELSE 0)
    + Cardinality({k \in PerfKeys : GT(tech[k], Num(2))})

\* C11: for a full technicals record the technical subscore is the number of
\* passing criteria out of five, normalised to the range 0-4; a criterion
\* that does not pass adds nothing.
C11_TechnicalCountsPasses ==
    (ScoresReturned /\ ~scores.raised /\ DOMAIN technicals = TechKeys) =>
        NumEq(scores.tech_score,
              Mul(Frac(TechPasses(technicals, thresholds), 5), Num(4)))

\* calculate_scores has returned a result
Scored == scores # NoScores /\ ~scores.raised
InRange(x, lo, hi) == LE(Num(lo), x) /\ LE(x, Num(hi))
\* the same rational in lowest terms
RECURSIVE Gcd(_, _)
Gcd(a, b) == IF b = 0 THEN a ELSE Gcd(b, a % b)
Lowest(x) ==
    LET g == Gcd(IF x.n < 0 THEN -x.n ELSE x.n, x.d)
    IN Frac(x.n \div g, x.d \div g)

\* C12: whenever calculate_scores returns, the fundamental subscore lies in
\* [0, 6], the technical subscore in [0, 4], and the composite is their sum
\* and lies in [0, 10].
C12_ScoreRanges ==
    Scored =>
        /\ InRange(scores.fund_score, 0, 6)
        /\ InRange(scores.tech_score, 0, 4)
        /\ NumEq(Lowest(scores.overall_score),
                 Add(Lowest(scores.fund_score), Lowest(scores.tech_score)))
        /\ InRange(scores.overall_score, 0, 10)

\* calculate_scores returned the largest composite: every criterion passed
C12_Witness ==
    /\ Scored
    /\ NumEq(scores.fund_score, Num(6))
    /\ NumEq(scores.tech_score, Num(4))
    /\ NumEq(scores.overall_score, Num(10))

\* get_option_recommendation has returned
Recommended == "get_option_recommendation" \in calls
\* the tier (expiration, delta, strike factor in hundredths) of a score
TierOf(s) ==
    IF ~LT(s, Num(8)) THEN <<"60 days", 50, 100>>
    ELSE IF ~LT(s, Num(6)) THEN <<"45 days", 35, 97>>
    ELSE <<"30 days", 20, 90>>

\* C13: for every composite score s and current price p the recommendation
\* is (60 days, delta 50, strike p) when s >= 8, (45 days, delta 35, strike
\* 0.97 p) when 6 <= s < 8 and (30 days, delta 20, strike 0.90 p) when s < 6.
C13_RecommendationTiers ==
    Recommended =>
        LET tier == TierOf(scores.overall_score)
        IN /\ option_rec.Expiration = tier[1]
           /\ option_rec.Delta = tier[2]
           /\ NumEq(option_rec.Strike,
                    Mul(technicals["Current Price"], Frac(tier[3], 100)))

\* a composite of exactly 8 was mapped to the 60-day tier
C13_Witness ==
    /\ Recommended
    /\ NumEq(scores.overall_score, Num(8))
    /\ option_rec.Expiration = "60 days"

\* the technicals were computed from a history whose trailing RSI window
\* holds no falling close
ZeroLossWindow ==
    /\ DOMAIN technicals = TechKeys
    /\ Len(hist) >= RSI_PERIOD + 1
    /\ SumLoss(hist, Len(hist) - RSI_PERIOD + 1, Len(hist)) = 0

\* C14: when the average loss over the trailing 14-period window is zero,
\* calculate_rsi reports RSI as unavailable, not 100, an infinity or NaN.
C14_RsiZeroLossUnavailable ==
    ZeroLossWindow => technicals["RSI"] \in {NA, None}

\* calculate_technical_indicators has been applied to a non-empty history
TechApplied == pc # "calculate_technical_indicators" /\ Len(hist) > 0
PerfKeyOf(N) ==
    CASE N = 7 -> "7-day Perf (%)"
      [] N = 30 -> "30-day Perf (%)"
      [] OTHER -> "60-day Perf (%)"
\* the percentage change from the close at position i to the latest close
ChangeFrom(h, i) ==
    Mul(Sub(Div(Num(h[Len(h)]), Num(h[i])), Num(1)), Num(100))

\* C15: in every implementation, for a non-empty history with fewer than N
\* bars (N in {7, 30, 60}) the N-day performance is computed without failing
\* as the percentage change from the earliest bar's close to the latest.
C15_PerfShortening ==
    TechApplied =>
        \A N \in {7, 30, 60} :
            Len(hist) < N =>
                /\ exc = "none"
                /\ PerfKeyOf(N) \in DOMAIN technicals
                /\ NumEq(technicals[PerfKeyOf(N)], ChangeFrom(hist, 1))

\* the RSI band of the sidebar is empty: its lower bound exceeds the upper
Malformed(th) == GT(th["RSI_low"], th["RSI_high"])

\* C16: with a malformed threshold configuration the run is rejected before
\* calculate_scores begins: no score and no recommendation is produced.
C16_MalformedRejected ==
    Malformed(thresholds) =>
        /\ "calculate_scores" \notin calls
        /\ scores = NoScores
        /\ option_rec = NoRec

\* C17: for every failure of the insight collaborator (building the client,
\* or the completion request) get_grok_insight returns the placeholder and
\* no exception leaves it.
C17_InsightContained ==
    (groq \in {"construct_error", "request_error"}) =>
        /\ exc = "none"
        /\ grok_insight = Placeholder

\* what holds of process_file at every moment
BatchInv ==
    \* at most three attempts per ticker
    /\ batch.attempt <= MAX_ATTEMPTS
    \* a further attempt follows only an attempt that raised RequestException
    /\ (batch.pc = "fetch" /\ batch.attempt > 0) => batch.last = "RequestException"
    \* no exception leaves extract_stockanalysis_data or process_file: every
    \* ticker taken up so far has its row
    /\ batch.pc # "idle" => Len(batch.results) = batch.i - 1
    /\ batch.pc = "done" => Len(batch.results) = batch.n
    \* exhausted attempts and errors that are not retried give an error row
    /\ \A j \in 1..Len(batch.results) :
          batch.results[j].fetch # "ok" => batch.results[j].row = "error"

\* C18: a page fetch is attempted at most 3 times, is retried only after a
\* requests.RequestException and always terminates; exhausted attempts or an
\* error that is not retried give an error row for that ticker instead of an
\* exception, and process_file goes on to the remaining tickers and returns.
C18_BoundedRetries == [](BatchInv) /\ <>(batch.pc = "done")

\* process_file returned after a ticker used up its attempts and a later
\* ticker was fetched
C18_Witness ==
    /\ batch.pc = "done"
    /\ \E j, k \in 1..Len(batch.results) :
         /\ j < k
         /\ batch.results[j] = ErrorRow("RetryError")
         /\ batch.results[k].row = "data"

FallbackOrLater ==
    \/ pc = "yf_history"
    \/ /\ live = "empty"
       /\ pc \in {"get_fundamental_data", "calculate_fundamentals"}

\* C20: in a run that used the live feed, the session is already
\* disconnected when the fallback request, or any provider call after it, is
\* issued.
C20_ReleaseBeforeFallback ==
    (variant \in LiveVariants /\ FallbackOrLater) => session # "connected"

\* C21: for a history of at least N + 1 bars (N in {7, 30, 60}) the N-day
\* performance calculate_performance returns is the percentage change from
\* the close exactly N bars before the latest bar to the latest close.
C21_PerfBaseBar ==
    (TechApplied /\ variant \in LiveVariants) =>
        \A N \in {7, 30, 60} :
            Len(hist) >= N + 1 =>
                NumEq(technicals[PerfKeyOf(N)],
                      ChangeFrom(hist, Len(hist) - N))

====
